---------------------------- MODULE Spec2Model ----------------------------
(***************************************************************************)
(* A model of codebase-to-prompt (src/src/lib.rs, src/src/main.rs): one    *)
(* call of run(config) over a directory tree.  Strings of the program are  *)
(* TLA+ strings; everything the program writes is the string `writer'.     *)
(*                                                                         *)
(* A TLA+ string literal cannot hold the backtick character, so BT stands  *)
(* for it in the Markdown heading and fences.                              *)
(***************************************************************************)
EXTENDS Integers, Sequences, FiniteSets, TLC

VARIABLES
    config,       \* the Config value handed to run (lib.rs:28-49)
    fs,           \* the environment: the directory tree, the repository, the sink
    pc,           \* "start" | "walk" | "done": the position inside run
    result,       \* "none" | "Ok" | "Err": what run returned
    output_path,  \* run's local output_path after decoration (lib.rs:59-63)
    created,      \* the file File::create made (lib.rs:125)
    writer,       \* the bytes the writer accepted so far
    walker,       \* the state of the filtered WalkDir iterator (lib.rs:145-147)
    visited,      \* history: the entries handed to process_file_entry (lib.rs:158)
    log           \* the tracing events emitted (error!, warn!)

vars == <<config, fs, pc, result, output_path, created, writer, walker, visited, log>>

---------------------------------------------------------------------------
(* Bounds of the model. *)

\* regular files in the tree (beside the root and one sub-directory)
NumFiles == 3

\* lines of the one long file content
LongLines == 10000

(* Program constants. *)

\* the width in "{:4} | {}" (lib.rs:268)
MinWidth == 4

\* the slice [..7] of the commit id (lib.rs:98)
ShortHashLen == 7

\* stands for the backtick character
BT == "^"

---------------------------------------------------------------------------
(* Option<T> *)

None == [some |-> FALSE, val |-> ""]

Some(v) == [some |-> TRUE, val |-> v]

---------------------------------------------------------------------------
(* String helpers. *)

Char(s, i) == SubSeq(s, i, i)

Max(a, b) == IF a >= b THEN a ELSE b

\* the string s repeated n times (by halving, so that long strings stay cheap)
RECURSIVE Rep(_, _)
Rep(s, n) ==
    IF n <= 0 THEN ""
    ELSE IF n = 1 THEN s
    ELSE LET h == Rep(s, n \div 2)
         IN  IF n % 2 = 0 THEN h \o h ELSE h \o h \o s

\* the strings f[lo], ..., f[hi] concatenated (by halving)
RECURSIVE ConcatRange(_, _, _)
ConcatRange(f, lo, hi) ==
    IF lo > hi THEN ""
    ELSE IF lo = hi THEN f[lo]
    ELSE LET mid == (lo + hi) \div 2
         IN  ConcatRange(f, lo, mid) \o ConcatRange(f, mid + 1, hi)

ConcatAll(f) == ConcatRange(f, 1, Len(f))

\* whether h occurs in s starting at position i
OccursAt(h, s, i) ==
    /\ i + Len(h) - 1 <= Len(s)
    /\ Char(s, i) = Char(h, 1)
    /\ SubSeq(s, i, i + Len(h) - 1) = h

\* the number of occurrences of the non-empty string h in s
Occurrences(h, s) == Cardinality({i \in 1..Len(s) : OccursAt(h, s, i)})

Contains(s, h) == \E i \in 1..Len(s) : OccursAt(h, s, i)

\* str::split_inclusive('\n'): the pieces of s, each ending with its "\n"
\* (but possibly the last).  Splitting at any inner "\n" gives the same
\* pieces, so the split is made near the middle.
RECURSIVE SplitInclusive(_)
SplitInclusive(s) ==
    IF s = "" THEN <<>>
    ELSE LET n     == Len(s)
             mid   == Max(1, n \div 2)
             IsCut(i) == Char(s, i) = "\n"
             Cut(m) == SplitInclusive(SubSeq(s, 1, m)) \o SplitInclusive(SubSeq(s, m + 1, n))
         IN  IF \E i \in mid..(n - 1) : IsCut(i)
             THEN Cut(CHOOSE i \in mid..(n - 1) : IsCut(i))
             ELSE IF \E i \in 1..(mid - 1) : IsCut(i)
             THEN Cut(CHOOSE i \in 1..(mid - 1) : IsCut(i))
             ELSE <<s>>

---------------------------------------------------------------------------
(* The directory tree: the root, one sub-directory, and NumFiles regular   *)
(* files, the first one inside the sub-directory and the others beside it. *)
(* Names, contents and access rights are chosen by Init (the record fs).   *)

Root == 1

SubDir == 2

Files == 3..(2 + NumFiles)

Nodes == 1..(2 + NumFiles)

IsDir(n) == n \in {Root, SubDir}

Parent(n) ==
    IF n = Root THEN 0
    ELSE IF n = SubDir THEN Root
    ELSE IF n = 3 THEN SubDir ELSE Root

\* n lies strictly below d
RECURSIVE IsUnder(_, _)
IsUnder(n, d) ==
    /\ n # Root
    /\ (Parent(n) = d \/ IsUnder(Parent(n), d))

\* the nodes from the root down to n, the root excluded
RECURSIVE Chain(_)
Chain(n) == IF n = Root THEN <<>> ELSE Append(Chain(Parent(n)), n)

\* the entries of directory d in the order the file system lists them
RECURSIVE ChildrenFrom(_, _)
ChildrenFrom(d, n) ==
    IF n > 2 + NumFiles THEN <<>>
    ELSE (IF Parent(n) = d THEN <<n>> ELSE <<>>) \o ChildrenFrom(d, n + 1)

\* WalkDir's order: depth first, a directory before its entries
RECURSIVE Preorder(_)
Preorder(n) ==
    LET c == ChildrenFrom(n, 1)
        sub == [i \in 1..Len(c) |-> Preorder(c[i])]
        RECURSIVE Flat(_)
        Flat(i) == IF i > Len(c) THEN <<>> ELSE sub[i] \o Flat(i + 1)
    IN  <<n>> \o Flat(1)

Name(n) == IF n = SubDir THEN fs.dirName ELSE fs.fileName[n]

\* DirEntry::file_name: the last component of the entry's path, and the whole
\* path when it has none (the root given as ".")
EntryFileName(n) == IF n = Root THEN config.directory ELSE Name(n)

\* path.strip_prefix(&config.directory): the components below the root
RECURSIVE JoinNames(_)
JoinNames(c) ==
    IF c = <<>> THEN ""
    ELSE IF Len(c) = 1 THEN Name(c[1])
    ELSE Name(c[1]) \o "/" \o JoinNames(Tail(c))

RelativePath(n) == JoinNames(Chain(n))

---------------------------------------------------------------------------
(* std::path: file_stem and extension of a file name. *)

\* the position of the last "." of s, 0 when it has none
LastDot(s) ==
    IF \E i \in 1..Len(s) : Char(s, i) = "."
    THEN CHOOSE i \in 1..Len(s) :
             /\ Char(s, i) = "."
             /\ \A j \in (i + 1)..Len(s) : Char(s, j) # "."
    ELSE 0

\* rsplit_file_at_dot: <<before, after>> around the last ".", where a name
\* with no "." is all `after', and ".." or a name whose only "." leads it is
\* all `before'
RsplitFileAtDot(file) ==
    LET d == LastDot(file)
    IN  IF file = ".." THEN <<Some(file), None>>
        ELSE IF d = 0 THEN <<None, Some(file)>>
        ELSE IF d = 1 THEN <<Some(file), None>>
        ELSE <<Some(SubSeq(file, 1, d - 1)), Some(SubSeq(file, d + 1, Len(file)))>>

\* a mutant: everything after the last "." whatever precedes it
ExtensionAfterAnyDot(file) ==
    LET d == LastDot(file)
    IN  IF d = 0 THEN None ELSE Some(SubSeq(file, d + 1, Len(file)))

\* Path::extension: before.and(after)
PathExtension(file) ==
    LET r == RsplitFileAtDot(file)
    IN  IF r[1].some THEN r[2] ELSE None

\* Path::file_stem: before.or(after)
PathFileStem(file) ==
    LET r == RsplitFileAtDot(file)
    IN  IF r[1].some THEN r[1] ELSE r[2]

\* path.extension().and_then(|s| s.to_str()).unwrap_or("")
Extension(n) ==
    LET e == PathExtension(Name(n))
    IN  IF e.some THEN e.val ELSE ""

---------------------------------------------------------------------------
(* The Rule Matcher: is_hidden, is_ignored, should_include_entry. *)

is_hidden(n) ==
    /\ config.ignore_hidden
    /\ Char(EntryFileName(n), 1) = "."

\* gitignore.matched(path, is_dir).is_ignore(): the rule set of the root's
\* .gitignore is the set fs.ignored of the entries it says are ignored
\* (entries below the root: the rules match paths relative to it)
is_ignored(n) ==
    IF ~config.respect_gitignore THEN FALSE
    ELSE n \in fs.ignored

should_include_entry(n) == ~is_hidden(n) /\ ~is_ignored(n)

---------------------------------------------------------------------------
(* The Tree Walker: WalkDir::new(dir).into_iter().filter_entry(pred).      *)
(* walker.todo holds the entries not yet looked at, in WalkDir's order;    *)
(* walker.err holds the entry whose error the iterator yields next.        *)

Openable(n) == IF n = Root THEN fs.root = "ok" ELSE fs.dirOpenable

\* a mutant: filter in place of filter_entry, which does not prune
SkipNothing(n, rest) == rest

\* skip_current_dir: the entries below n are dropped
SkipCurrentDir(n, rest) == SelectSeq(rest, LAMBDA m : ~IsUnder(m, n))

\* the iterator as process_directory builds it: a root that cannot be
\* stat'ed is one error and nothing else
NewWalker ==
    IF fs.root = "missing"
    THEN [todo |-> <<>>, err |-> Root]
    ELSE [todo |-> Preorder(Root), err |-> 0]

\* one call of next(): rejected entries are passed over, a rejected
\* directory with all below it; a directory that cannot be read is yielded
\* and followed by its error, and its entries are never listed
RECURSIVE WalkerNext(_)
WalkerNext(w) ==
    IF w.err # 0
    THEN [kind |-> "err", node |-> w.err, walker |-> [todo |-> w.todo, err |-> 0]]
    ELSE IF w.todo = <<>>
    THEN [kind |-> "none", node |-> 0, walker |-> w]
    ELSE LET n    == Head(w.todo)
             rest == Tail(w.todo)
         IN  IF should_include_entry(n)
             THEN IF IsDir(n) /\ ~Openable(n)
                  THEN [kind |-> "ok", node |-> n,
                        walker |-> [todo |-> SelectSeq(rest, LAMBDA m : ~IsUnder(m, n)),
                                    err |-> n]]
                  ELSE [kind |-> "ok", node |-> n,
                        walker |-> [todo |-> rest, err |-> 0]]
             ELSE WalkerNext([todo |-> SkipCurrentDir(n, rest), err |-> 0])

---------------------------------------------------------------------------
(* The Extension Filter of process_file_entry (lib.rs:195-206). *)

InList(list, e) == \E i \in 1..Len(list) : list[i] = e

\* a mutant: the [""] sentinel not recognised
ApplyIncludeFilterNoSentinel == config.include # <<>>

ApplyIncludeFilter ==
    ~(config.include = <<>> \/ (Len(config.include) = 1 /\ config.include[1] = ""))

PassesExtensionFilter(n) ==
    /\ ~(ApplyIncludeFilter /\ ~InList(config.include, Extension(n)))
    /\ ~InList(config.exclude, Extension(n))

---------------------------------------------------------------------------
(* The Content Renderer: write_content_lines and write_file_content.  A    *)
(* unit is the text of one writeln!.                                       *)

EndsWith(s, c) == Len(s) >= 1 /\ Char(s, Len(s)) = c

DropLast(s) == SubSeq(s, 1, Len(s) - 1)

\* what str::lines makes of one piece of split_inclusive: the "\n" goes,
\* and a "\r" before it
StripLineEnd(piece) ==
    IF ~EndsWith(piece, "\n") THEN piece
    ELSE LET l == DropLast(piece)
         IN  IF EndsWith(l, "\r") THEN DropLast(l) ELSE l

\* content.lines()
ContentLines(content) ==
    LET pieces == SplitInclusive(content)
    IN  [k \in 1..Len(pieces) |-> StripLineEnd(pieces[k])]

\* a mutant: the number cut to the width of the field
FormatLineNumberFixed(k) ==
    LET d == ToString(k)
    IN  IF Len(d) >= MinWidth THEN SubSeq(d, Len(d) - MinWidth + 1, Len(d))
        ELSE Rep(" ", MinWidth - Len(d)) \o d

\* "{:4}" of i + 1: padded with blanks on the left up to MinWidth, never cut
FormatLineNumber(k) ==
    LET d == ToString(k)
    IN  Rep(" ", MinWidth - Len(d)) \o d

\* write_content_lines: the units it writes
ContentUnits(content) ==
    IF config.line_numbers
    THEN LET lines == ContentLines(content)
         IN  [k \in 1..Len(lines) |-> FormatLineNumber(k) \o " | " \o lines[k] \o "\n"]
    ELSE <<content \o "\n">>

Fence == BT \o BT \o BT

\* a mutant: the closing fence forgotten
WriteFileContentNoClose(n) ==
    IF config.format = "Markdown"
    THEN <<"### " \o BT \o RelativePath(n) \o BT \o "\n\n",
           Fence \o Extension(n) \o "\n">>
         \o ContentUnits(fs.content[n])
    ELSE <<"./" \o RelativePath(n) \o "\n---\n">>
         \o ContentUnits(fs.content[n])
         \o <<"---\n">>

\* write_file_content: the units it writes for file n
WriteFileContent(n) ==
    IF config.format = "Markdown"
    THEN <<"### " \o BT \o RelativePath(n) \o BT \o "\n\n",
           Fence \o Extension(n) \o "\n">>
         \o ContentUnits(fs.content[n])
         \o <<Fence \o "\n\n">>
    ELSE <<"./" \o RelativePath(n) \o "\n---\n">>
         \o ContentUnits(fs.content[n])
         \o <<"---\n">>

---------------------------------------------------------------------------
(* The Output Sink Selector: append_date_and_git_hash and                  *)
(* determine_output_writer.  A path is [parent, file_name].                *)

NoPath == [some |-> FALSE, val |-> [parent |-> "", file_name |-> ""]]

Event(level, what, n) == [level |-> level, what |-> what, node |-> n]

\* a mutant: the whole commit id appended
ShortHashWhole(oid) == oid

\* &oid.to_string()[..7]
ShortHash(oid) == SubSeq(oid, 1, ShortHashLen)

\* Repository::open, repo.head() and head.target() (lib.rs:93-103):
\* "warn" (not a repository), "err" (HEAD cannot be read, the `?'),
\* "hash" (a commit id to append) or "skip" (HEAD has no direct target)
OpenRepository ==
    IF fs.repo.state = "none" THEN "warn"
    ELSE IF fs.repo.state = "unborn" THEN "err"
    ELSE IF fs.repo.state = "commit" THEN "hash"
    ELSE "skip"

\* append_date_and_git_hash on Some(path): [ok, path, log]
AppendDateAndGitHash(path) ==
    LET stem == PathFileStem(path.file_name)
        s0   == IF stem.some THEN stem.val ELSE ""
        s1   == IF config.append_date THEN s0 \o "_" \o fs.today ELSE s0
        git  == IF config.append_git_hash THEN OpenRepository ELSE "skip"
        s2   == IF git = "hash" THEN s1 \o "_" \o ShortHash(fs.repo.oid) ELSE s1
        ext  == PathExtension(path.file_name)
        s3   == IF ext.some THEN s2 \o "." \o ext.val ELSE s2
    IN  IF git = "err"
        THEN [ok |-> FALSE, path |-> Some(path), log |-> <<>>]
        ELSE [ok |-> TRUE,
              path |-> Some([parent |-> path.parent, file_name |-> s3]),
              log |-> IF git = "warn"
                      THEN <<Event("warn", "not a git repository", 0)>>
                      ELSE <<>>]

\* lib.rs:61-63: the decoration step of run
Decorate ==
    IF (config.append_date \/ config.append_git_hash) /\ config.output.some
    THEN AppendDateAndGitHash(config.output.val)
    ELSE [ok |-> TRUE, path |-> config.output, log |-> <<>>]

\* determine_output_writer: File::create fails when the parent directory is
\* missing or not writable
DetermineOutputWriter(path) ==
    IF path.some
    THEN IF fs.parentOk
         THEN [ok |-> TRUE, created |-> path]
         ELSE [ok |-> FALSE, created |-> NoPath]
    ELSE [ok |-> TRUE, created |-> NoPath]

---------------------------------------------------------------------------
(* The Pipeline Driver: run, process_directory, process_file_entry. *)

\* a mutant: the error of an entry returned with `?'
EntryFailurePolicyPropagate == "return"

\* what process_directory does with a failed entry (lib.rs:152-160):
\* error! and on to the next one
EntryFailurePolicy == "continue"

\* how many units of a block the sink may accept before it fails: all of
\* them, or with a failing sink any number from none on.  (The BufWriter
\* reports the error of a flush in the writeln! that triggers it; what it
\* accepted before stays in the stream.  writer is the stream it accepted.)
FailPoints(units) ==
    IF fs.faulty THEN 0..Len(units) ELSE {Len(units)}

\* lib.rs:58-67 up to the call of process_directory
Run ==
    /\ pc = "start"
    /\ LET dec == Decorate
           w   == DetermineOutputWriter(dec.path)
       IN  /\ output_path' = dec.path
           /\ log' = log \o dec.log
           /\ IF dec.ok /\ w.ok
              THEN /\ pc' = "walk"
                   /\ result' = "none"
                   /\ created' = w.created
                   /\ walker' = NewWalker
              ELSE /\ pc' = "done"
                   /\ result' = "Err"
                   /\ UNCHANGED <<created, walker>>
    /\ UNCHANGED <<config, fs, writer, visited>>

\* leaving the loop with a result: what a policy other than "continue",
\* which the code does not have, would do with a failed entry
Stop(res) ==
    /\ pc' = "done"
    /\ result' = res

\* one turn of the loop of process_directory (lib.rs:149-161), with the
\* whole of process_file_entry and write_file_content for the entry
WalkStep ==
    /\ pc = "walk"
    /\ LET nx == WalkerNext(walker)
           n  == nx.node
       IN  /\ nx.kind # "none"
           /\ walker' = nx.walker
           /\ IF nx.kind = "err"
              THEN /\ log' = Append(log, Event("error", "access", n))
                   /\ UNCHANGED <<writer, visited>>
                   /\ IF EntryFailurePolicy = "continue"
                      THEN UNCHANGED <<pc, result>> ELSE Stop("Err")
              ELSE /\ visited' = Append(visited, n)
                   /\ IF IsDir(n) \/ ~PassesExtensionFilter(n)
                      THEN UNCHANGED <<writer, log, pc, result>>
                      ELSE IF ~fs.utf8[n]
                      THEN /\ log' = Append(log, Event("warn", "skip", n))
                           /\ UNCHANGED <<writer, pc, result>>
                      ELSE LET units == WriteFileContent(n)
                           IN  \E k \in FailPoints(units) :
                                 /\ writer' = writer \o ConcatRange(units, 1, k)
                                 /\ IF k = Len(units)
                                    THEN UNCHANGED <<log, pc, result>>
                                    ELSE /\ log' = Append(log, Event("error", "write", n))
                                         /\ IF EntryFailurePolicy = "continue"
                                            THEN UNCHANGED <<pc, result>>
                                            ELSE Stop("Err")
    /\ UNCHANGED <<config, fs, output_path, created>>

\* the iterator is exhausted: process_directory returns Ok(()) (lib.rs:163-164)
Finish ==
    /\ pc = "walk"
    /\ WalkerNext(walker).kind = "none"
    /\ pc' = "done"
    /\ result' = "Ok"
    /\ UNCHANGED <<config, fs, output_path, created, writer, walker, visited, log>>

Next == Run \/ WalkStep \/ Finish

---------------------------------------------------------------------------
(* Initial states.  A specification draws config from a set of Config      *)
(* values and fs from a set of environments.                               *)

\* what `--include' and `--exclude' parse to when not given
\* (default_value = "" with use_value_delimiter, main.rs:17-21)
CliDefaultList == <<"">>

OutFile(name) == Some([parent |-> "tmp", file_name |-> name])

\* the commit id of HEAD (shortened: ten of its forty characters)
HeadOid == "abcdef1234"

Repo(state) == [state |-> state, oid |-> IF state = "commit" THEN HeadOid ELSE ""]

\* two entries of one directory never share a name, and a directory that
\* does not exist holds no repository
WellFormed(e) ==
    /\ \A a, b \in Files :
           (a # b /\ Parent(a) = Parent(b)) => e.fileName[a] # e.fileName[b]
    /\ e.root = "missing" => e.repo.state = "none"

\* one choice of names: "Makefile" and "f3.rs", "f5.rs", ...
FixedNames == [n \in Files |-> IF n = 4 THEN "Makefile" ELSE "f" \o ToString(n) \o ".rs"]

\* the file content of LongLines lines
LongContent == Rep("z\n", LongLines)

InitWith(Configs, Envs) ==
    /\ config \in Configs
    /\ fs \in {e \in Envs : WellFormed(e)}
    /\ pc = "start"
    /\ result = "none"
    /\ output_path = NoPath
    /\ created = NoPath
    /\ writer = ""
    /\ walker = [todo |-> <<>>, err |-> 0]
    /\ visited = <<>>
    /\ log = <<>>

(* Filtering by hidden names, ignore rules and extension. *)
InitWalk ==
    InitWith(
        [directory : {".", "proj"}, output : {NoPath},
         include : {<<>>, <<"rs">>}, exclude : {<<>>, <<"rs">>},
         format : {"Markdown"}, append_date : {FALSE}, append_git_hash : {FALSE},
         line_numbers : {FALSE}, ignore_hidden : BOOLEAN, respect_gitignore : BOOLEAN],
        [root : {"ok"}, dirName : {"src", ".git"}, dirOpenable : {TRUE},
         fileName : [Files -> {"a.rs", ".env", "Makefile"}],
         utf8 : [Files -> {TRUE}], content : [Files -> {"x\n"}],
         ignored : SUBSET (Nodes \ {Root}), repo : {Repo("none")},
         parentOk : {TRUE}, today : {"20261104"}, faulty : {FALSE}])

SpecWalk == InitWalk /\ [][Next]_vars

(* The extension of a name and the include and exclude lists. *)
InitFilter ==
    InitWith(
        [directory : {"proj"}, output : {NoPath},
         include : {<<>>, CliDefaultList, <<"rs">>, <<"rs", "">>, <<"env">>, <<"gz", "rs">>},
         exclude : {<<>>, CliDefaultList, <<"rs">>, <<"gz">>},
         format : {"Markdown"}, append_date : {FALSE}, append_git_hash : {FALSE},
         line_numbers : {FALSE}, ignore_hidden : {FALSE}, respect_gitignore : {TRUE}],
        [root : {"ok"}, dirName : {"src"}, dirOpenable : {TRUE},
         fileName : [Files -> {"a.rs", ".env", "Makefile", "b.", "x.tar.gz", "..rs"}],
         utf8 : [Files -> {TRUE}], content : [Files -> {"x\n"}],
         ignored : {{}}, repo : {Repo("none")},
         parentOk : {TRUE}, today : {"20261104"}, faulty : {FALSE}])

SpecFilter == InitFilter /\ [][Next]_vars

(* Errors of single entries: unreadable directories and files, a sink that *)
(* fails.                                                                  *)
InitErrors ==
    InitWith(
        [directory : {"proj"}, output : {NoPath, OutFile("output.md")},
         include : {<<>>, <<"rs">>}, exclude : {<<>>},
         format : {"Markdown"}, append_date : {FALSE}, append_git_hash : {FALSE},
         line_numbers : {FALSE}, ignore_hidden : {TRUE}, respect_gitignore : {TRUE}],
        [root : {"ok"}, dirName : {"src"}, dirOpenable : BOOLEAN,
         fileName : [Files -> {"a.rs", "b.rs", "c.txt"}],
         utf8 : [Files -> BOOLEAN], content : [Files -> {"x\n"}],
         ignored : {{}}, repo : {Repo("none")},
         parentOk : {TRUE}, today : {"20261104"}, faulty : BOOLEAN])

SpecErrors == InitErrors /\ [][Next]_vars

(* The layout of a block, with a sink that may fail. *)
InitRender ==
    InitWith(
        [directory : {"proj"}, output : {NoPath},
         include : {<<>>}, exclude : {<<>>},
         format : {"Markdown", "Text", "Console"},
         append_date : {FALSE}, append_git_hash : {FALSE},
         line_numbers : BOOLEAN, ignore_hidden : {FALSE}, respect_gitignore : {TRUE}],
        [root : {"ok"}, dirName : {"src"}, dirOpenable : {TRUE},
         fileName : {FixedNames},
         utf8 : [Files -> {TRUE}], content : [Files -> {"", "x", "x\ny\n"}],
         ignored : {{}}, repo : {Repo("none")},
         parentOk : {TRUE}, today : {"20261104"}, faulty : BOOLEAN])

SpecRender == InitRender /\ [][Next]_vars

(* Line numbers, up to a content of LongLines lines. *)
InitLines ==
    InitWith(
        [directory : {"proj"}, output : {NoPath},
         include : {<<>>}, exclude : {<<>>},
         format : {"Markdown", "Text"},
         append_date : {FALSE}, append_git_hash : {FALSE},
         line_numbers : BOOLEAN, ignore_hidden : {FALSE}, respect_gitignore : {TRUE}],
        {e \in [root : {"ok"}, dirName : {"src"}, dirOpenable : {TRUE},
                fileName : {FixedNames},
                utf8 : [Files -> {TRUE}],
                content : [Files -> {"", "x", "x\ny\n", "x\r\ny", "\n\n", "x\r\ny\r\n",
                                    LongContent}],
                ignored : {{}}, repo : {Repo("none")},
                parentOk : {TRUE}, today : {"20261104"}, faulty : {FALSE}] :
            \A n \in Files : n # 3 => e.content[n] \in {"x", "x\r\ny\r\n"}})

SpecLines == InitLines /\ [][Next]_vars

(* The set-up of run: the output file, its decorated name, the root. *)
InitSetup ==
    InitWith(
        [directory : {"proj"},
         output : {NoPath, OutFile("output.txt"), OutFile("out"), OutFile("a.tar.gz"),
                   OutFile(".out")},
         include : {<<>>}, exclude : {<<>>},
         format : {"Text"}, append_date : BOOLEAN, append_git_hash : BOOLEAN,
         line_numbers : {FALSE}, ignore_hidden : {FALSE}, respect_gitignore : {TRUE}],
        [root : {"ok", "missing", "unreadable"}, dirName : {"src"}, dirOpenable : {TRUE},
         fileName : {FixedNames},
         utf8 : [Files -> {TRUE}], content : [Files -> {"x\n"}],
         ignored : {{}},
         repo : {Repo("none"), Repo("commit"), Repo("unborn"), Repo("symbolic")},
         parentOk : BOOLEAN, today : {"20261104"}, faulty : {FALSE}])

SpecSetup == InitSetup /\ [][Next]_vars

---------------------------------------------------------------------------
(* What the specification says of the output, stated on its own terms. *)

Range(q) == {q[i] : i \in 1..Len(q)}

\* the header carrying the root-relative path of file n
HeadingOf(n) ==
    IF config.format = "Markdown"
    THEN "### " \o BT \o RelativePath(n) \o BT \o "\n"
    ELSE "./" \o RelativePath(n) \o "\n---\n"

\* the hidden-entry check or the ignore-rule check rejects entry m
RejectedByRule(m) ==
    \/ config.ignore_hidden /\ Char(EntryFileName(m), 1) = "."
    \/ config.respect_gitignore /\ m \in fs.ignored

\* the include list filters at all
IncludeActive == config.include # <<>> /\ config.include # <<"">>

\* the extension filter as the specification words it
AcceptsExtension(e) ==
    /\ (~IncludeActive \/ InList(config.include, e))
    /\ ~InList(config.exclude, e)

\* the substring after the final "." of a name, "" if it has none
AfterFinalDot(name) ==
    IF LastDot(name) = 0 THEN "" ELSE SubSeq(name, LastDot(name) + 1, Len(name))

\* the same, but "" too when the only "." is the first character
AfterFinalInnerDot(name) ==
    IF LastDot(name) <= 1 THEN "" ELSE SubSeq(name, LastDot(name) + 1, Len(name))

---------------------------------------------------------------------------
(* C1: after a successful run, every valid-text file whose extension is in *)
(* an active include list and not in the exclude list, and which is not    *)
(* rejected (nor any directory strictly between the root and it) by the    *)
(* hidden-entry or ignore-rule check, has its header in the output exactly *)
(* once, whatever the root is called.                                      *)
C1_SelectedFileAppearsOnce ==
    (pc = "done" /\ result = "Ok") =>
        \A n \in Files :
            ( /\ fs.utf8[n]
              /\ IncludeActive
              /\ InList(config.include, Extension(n))
              /\ ~InList(config.exclude, Extension(n))
              /\ \A m \in Range(Chain(n)) : ~RejectedByRule(m) )
            => Occurrences(HeadingOf(n), writer) = 1

(* C2: no block is ever written for a file that is excluded by extension,  *)
(* or rejected by the hidden-entry or ignore-rule check, or that lies      *)
(* under a rejected directory; the entries under a rejected directory are  *)
(* never yielded.                                                          *)
C2_NoBlockForRejected ==
    \A n \in Files :
        /\ ( \/ ~AcceptsExtension(Extension(n))
             \/ \E m \in Range(Chain(n)) \cup {Root} : RejectedByRule(m) )
           => ~Contains(writer, HeadingOf(n))
        /\ (\E m \in Range(Chain(n)) \cup {Root} : RejectedByRule(m))
           => n \notin Range(visited)

\* a file of a rejected sub-directory is passed over, and a file after it
\* is rendered
C2_Witness ==
    /\ pc = "done"
    /\ \E n, k \in Files :
        /\ Parent(n) = SubDir
        /\ RejectedByRule(SubDir)
        /\ ~RejectedByRule(n)
        /\ AcceptsExtension(Extension(n))
        /\ Parent(k) = Root
        /\ Contains(writer, HeadingOf(k))

(* C7: a file with extension e is accepted exactly when (the include list  *)
(* is empty or is [""], or e is in it) and e is not in the exclude list.   *)
(* Every file of SpecFilter reaches the filter and is valid text, so it is *)
(* accepted exactly when its header is in the output.                      *)
C7_ExtensionFilter ==
    pc = "done" =>
        \A n \in Files :
            Contains(writer, HeadingOf(n)) <=> AcceptsExtension(Extension(n))

\* under the include list [""] a file with extension "rs" is rendered, and
\* under the exclude list [""] a file without extension is not
C7_Witness ==
    /\ pc = "done"
    /\ config.include = CliDefaultList
    /\ config.exclude = CliDefaultList
    /\ \E n, k \in Files :
        /\ Extension(n) = "rs" /\ Contains(writer, HeadingOf(n))
        /\ Extension(k) = "" /\ ~Contains(writer, HeadingOf(k))

(* C10, as stated: the extension that filters a file and tags its fence is *)
(* the substring after the final "." of its name, "" if there is none,     *)
(* names with only a leading "." included.                                 *)
C10_ExtensionIsAfterFinalDot ==
    pc = "done" =>
        \A n \in Files :
            /\ Contains(writer, HeadingOf(n)) <=> AcceptsExtension(AfterFinalDot(Name(n)))
            /\ Contains(writer, HeadingOf(n)) =>
                   Contains(writer, HeadingOf(n) \o "\n" \o Fence
                                    \o AfterFinalDot(Name(n)) \o "\n")

(* C10, amended: the extension is the substring after the final "." of the *)
(* name, and "" if the name has no "." or none but its first character.    *)
C10_ExtensionIsAfterFinalInnerDot ==
    pc = "done" =>
        \A n \in Files :
            /\ Contains(writer, HeadingOf(n)) <=> AcceptsExtension(AfterFinalInnerDot(Name(n)))
            /\ Contains(writer, HeadingOf(n)) =>
                   Contains(writer, HeadingOf(n) \o "\n" \o Fence
                                    \o AfterFinalInnerDot(Name(n)) \o "\n")

\* ".env" is rendered with an empty tag, and "x.tar.gz" with the tag "gz"
C10_Witness ==
    /\ pc = "done"
    /\ \E n, k \in Files :
        /\ Name(n) = ".env"
        /\ Contains(writer, HeadingOf(n) \o "\n" \o Fence \o "\n")
        /\ Name(k) = "x.tar.gz"
        /\ Contains(writer, HeadingOf(k) \o "\n" \o Fence \o "gz\n")

---------------------------------------------------------------------------
(* The block of a file as the specification lays it out. *)

\* the number k right-aligned in a field of four characters, wider when k
\* has more than four digits
RightAligned(k) == Rep(" ", 4 - Len(ToString(k))) \o ToString(k)

\* the content of file n as the block shows it
ExpectedBody(n) ==
    IF config.line_numbers
    THEN LET lines == ContentLines(fs.content[n])
         IN  ConcatAll([k \in 1..Len(lines) |->
                            RightAligned(k) \o " | " \o lines[k] \o "\n"])
    ELSE fs.content[n] \o "\n"

\* Markdown: heading, blank line, opening fence with the extension, the
\* content, closing fence, blank line
MarkdownBlock(n) ==
    "### " \o BT \o RelativePath(n) \o BT \o "\n"
    \o "\n"
    \o Fence \o Extension(n) \o "\n"
    \o ExpectedBody(n)
    \o Fence \o "\n"
    \o "\n"

\* PlainText and Console: the path line, three dashes, the content, three
\* dashes
TextBlock(n) ==
    "./" \o RelativePath(n) \o "\n"
    \o "---\n"
    \o ExpectedBody(n)
    \o "---\n"

ExpectedBlock(n) ==
    IF config.format = "Markdown" THEN MarkdownBlock(n) ELSE TextBlock(n)

Logged(level, what, n) == Event(level, what, n) \in Range(log)

---------------------------------------------------------------------------
(* C3: once the sink exists no problem of a single entry aborts the run:   *)
(* whatever traversal, read or write errors occurred, the run ends with    *)
(* success, the entries handed to the driver are all the entries that can  *)
(* be reached, in the walk's order, and every qualifying file among them   *)
(* was rendered (its block is in the output, unless its own write failed). *)
C3_Reachable(n) ==
    /\ \A m \in Range(Chain(n)) \cup {Root} : ~RejectedByRule(m)
    /\ \A d \in {Root, SubDir} : IsUnder(n, d) => Openable(d)

C3_PerEntryErrorsDoNotAbort ==
    /\ pc # "done" => result = "none"
    /\ pc = "done" =>
        /\ result = "Ok"
        /\ visited = SelectSeq(Preorder(Root), C3_Reachable)
        /\ \A n \in Files :
            (C3_Reachable(n) /\ AcceptsExtension(Extension(n)) /\ fs.utf8[n]) =>
                \/ Contains(writer, ExpectedBlock(n))
                \/ Logged("error", "write", n)

\* the sub-directory could not be read, the write of one file failed, and a
\* later file is rendered in full
C3_Witness ==
    /\ pc = "done"
    /\ result = "Ok"
    /\ ~fs.dirOpenable
    /\ Logged("error", "access", SubDir)
    /\ \E n, k \in Files :
        /\ n < k
        /\ Logged("error", "write", n)
        /\ Contains(writer, ExpectedBlock(k))

(* C4: run returns a failure whenever the output file cannot be created or *)
(* the root directory cannot be opened for traversal.                      *)
C4_SetupErrorFailsRun ==
    ( /\ pc = "done"
      /\ \/ config.output.some /\ ~fs.parentOk
         \/ fs.root \in {"missing", "unreadable"} )
    => result = "Err"

(* C6: in Markdown format the block of each rendered file is, in one       *)
(* piece: the heading with the backtick-quoted relative path, a blank      *)
(* line, the opening fence tagged with the extension, the full content     *)
(* (verbatim without line numbers), the closing fence, a blank line.       *)
C6_MarkdownBlock ==
    (pc = "done" /\ config.format = "Markdown") =>
        \A n \in Files :
            ~Logged("error", "write", n) =>
                Occurrences(MarkdownBlock(n), writer) = 1

\* two files rendered in Markdown, one of them of two lines
C6_Witness ==
    /\ pc = "done"
    /\ config.format = "Markdown"
    /\ ~config.line_numbers
    /\ \E n, k \in Files :
        /\ n # k
        /\ fs.content[n] = "x\ny\n"
        /\ Contains(writer, MarkdownBlock(n) \o MarkdownBlock(k))

(* C9: when writing the block of a file fails part-way, the output holds   *)
(* either the complete block of a file or nothing of it.                   *)
C9_BlockIsAllOrNothing ==
    pc = "done" =>
        \A n \in Files :
            Contains(writer, HeadingOf(n)) => Contains(writer, ExpectedBlock(n))

---------------------------------------------------------------------------
(* Line numbers: the lines of the output that show the content of a file.  *)

\* the lines of the output, each with its "\n"
OutputLines == SplitInclusive(writer)

\* the first line of the header of file n
PathLine(n) ==
    IF config.format = "Markdown"
    THEN "### " \o BT \o RelativePath(n) \o BT \o "\n"
    ELSE "./" \o RelativePath(n) \o "\n"

\* the index in the output's lines of the first content line of file n
BodyStart(L, n) ==
    (CHOOSE p \in 1..Len(L) : L[p] = PathLine(n))
    + (IF config.format = "Markdown" THEN 3 ELSE 2)

ClosingLine == IF config.format = "Markdown" THEN Fence \o "\n" ELSE "---\n"

\* the lines written for the content of file n are the lines of the content,
\* in order and no more, the k-th one led by Field(k) and " | "
NumberedBy(Field(_), L, n) ==
    LET lines == ContentLines(fs.content[n])
        b     == BodyStart(L, n)
    IN  /\ \A k \in 1..Len(lines) :
               L[b + k - 1] = Field(k) \o " | " \o lines[k] \o "\n"
        /\ L[b + Len(lines)] = ClosingLine

(* C5, as stated: with line numbers a content of N lines is written as N   *)
(* prefixed lines in order, the k-th being k right-aligned in a field of   *)
(* exactly four characters, " | ", and the k-th line unchanged, for every  *)
(* N, above 9999 too.                                                      *)
C5_NumbersInFixedField ==
    (pc = "done" /\ config.line_numbers) =>
        LET L == OutputLines
        IN  \A n \in Files :
                /\ NumberedBy(RightAligned, L, n)
                /\ \A k \in 1..Len(ContentLines(fs.content[n])) :
                       SubSeq(L[BodyStart(L, n) + k - 1], 5, 7) = " | "

(* C5, amended: the field is at least four characters wide: numbers of up  *)
(* to four digits are right-aligned in four characters, and a number above *)
(* 9999 takes as many characters as it has digits.                         *)
C5_NumbersInMinimumField ==
    (pc = "done" /\ config.line_numbers) =>
        LET L == OutputLines
        IN  \A n \in Files :
                /\ NumberedBy(RightAligned, L, n)
                /\ \A k \in 1..Len(ContentLines(fs.content[n])) :
                       /\ k <= 9999 => SubSeq(L[BodyStart(L, n) + k - 1], 5, 7) = " | "
                       /\ k > 9999 =>
                              SubSeq(L[BodyStart(L, n) + k - 1], 1, Len(ToString(k)) + 3)
                                  = ToString(k) \o " | "

\* the long content was written down to its last line, whose number has
\* more than four digits
C5_Witness ==
    /\ pc = "done"
    /\ config.line_numbers
    /\ fs.content[3] = LongContent
    /\ LongLines > 9999
    /\ LET L == OutputLines
       IN  L[BodyStart(L, 3) + LongLines - 1] = ToString(LongLines) \o " | z\n"

---------------------------------------------------------------------------
(* C8: with the git hash requested and an output path given, a repository  *)
(* with a head commit makes the created file <stem>[_date]_<first seven    *)
(* characters of the commit id><.ext>; a directory that is no repository   *)
(* leaves the name as without the hash, and the run goes on and succeeds.  *)
C8_DottedExtension(name) ==
    IF PathExtension(name).some THEN "." \o PathExtension(name).val ELSE ""

C8_DatePart == IF config.append_date THEN "_" \o fs.today ELSE ""

C8_GitHashInFileName ==
    (pc # "start" /\ config.append_git_hash /\ config.output.some /\ fs.parentOk) =>
        LET name == config.output.val.file_name
            stem == PathFileStem(name).val
        IN  /\ fs.repo.state = "commit" =>
                /\ created.some
                /\ created.val.parent = config.output.val.parent
                /\ created.val.file_name =
                       stem \o C8_DatePart \o "_" \o SubSeq(fs.repo.oid, 1, 7)
                       \o C8_DottedExtension(name)
            /\ fs.repo.state = "none" =>
                /\ created.some
                /\ created.val.file_name = stem \o C8_DatePart \o C8_DottedExtension(name)
                /\ ~config.append_date => created.val = config.output.val
                /\ Logged("warn", "not a git repository", 0)
                /\ result # "Err"
                /\ pc = "done" => result = "Ok"

\* the date and the hash both went into the name of the file created
C8_Witness ==
    /\ pc = "done"
    /\ result = "Ok"
    /\ config.output = OutFile("output.txt")
    /\ created = OutFile("output_20261104_abcdef1.txt")

==========================================================================
